---- MODULE Spec2Model ----
(***************************************************************************)
(* A model of the extraction engine of makePot: the code extractor         *)
(* (extractTranslationsFromCode, findLineNumber, removeCommentMarkup), the *)
(* structured-data extractor (yieldParsedData, storeTranslation,           *)
(* gentranslation) and the catalog extractor (extractTranslations).        *)
(*                                                                         *)
(* Text is a sequence of one-character strings.  An optional value (a      *)
(* capture group that may be undefined) is a record [some, str].           *)
(***************************************************************************)
EXTENDS Integers, Sequences, FiniteSets, TLC

VARIABLES
    \* ---- code extractor
    pc,             \* "idle" | "loop" | "done": position of extractTranslationsFromCode
    content,        \* the text of the file being scanned
    filename,       \* its logical name
    slug,           \* args.slug
    matches,        \* every match the pattern has in content, in text order
    lineIndex,      \* Record<number, number>: line-start offset -> line number
    lastIndex,      \* TRANSLATIONS_REGEX.lastIndex, shared by all calls
    translations,   \* the occurrences pushed so far
    diagnostics,    \* the console.log warnings emitted so far
    callsDone,      \* history: how many calls have returned
    \* ---- structured-data extractor
    dpc,            \* "idle" | "entries" | "returned" | "threw"
    parsed,         \* the argument of yieldParsedData
    entries,        \* the top-level entries not yet visited
    pending,        \* the storeTranslation calls the current entry still makes
    gettextTranslations, \* the mapping being built
    stored,         \* history: the storeTranslation calls made so far
    \* ---- catalog extractor
    cpc,            \* "idle" | "returned"
    potContent,     \* the argument of extractTranslations
    potResult       \* its return value

codeVars == <<pc, content, filename, slug, matches, lineIndex, lastIndex,
              translations, diagnostics, callsDone>>
dataVars == <<dpc, parsed, entries, pending, gettextTranslations, stored>>
potVars == <<cpc, potContent, potResult>>
vars == <<codeVars, dataVars, potVars>>

----------------------------------------------------------------------------
(* Bounds of the model *)

MaxLen == 4

MaxCalls == 2

----------------------------------------------------------------------------
(* Strings *)

None == [some |-> FALSE, str |-> <<>>]

Some(s) == [some |-> TRUE, str |-> s]

SeqsUpTo(S, n) == UNION {[1..k -> S] : k \in 0..n}

Min(a, b) == IF a < b THEN a ELSE b

\* String.prototype.slice(n): the text from 0-based offset n on
Slice(s, n) == SubSeq(s, Min(n, Len(s)) + 1, Len(s))

\* String.prototype.startsWith(p)
StartsWith(s, p) == Len(p) <= Len(s) /\ SubSeq(s, 1, Len(p)) = p

WhiteSpace == {" ", "\n", "\t"}

\* the first position at or after i that holds no white space
RECURSIVE TrimStart(_, _)
TrimStart(s, i) ==
    IF i <= Len(s) /\ s[i] \in WhiteSpace THEN TrimStart(s, i + 1) ELSE i

\* the last position at or before j that holds no white space
RECURSIVE TrimEnd(_, _)
TrimEnd(s, j) ==
    IF j >= 1 /\ s[j] \in WhiteSpace THEN TrimEnd(s, j - 1) ELSE j

\* String.prototype.trim()
Trim(s) == SubSeq(s, TrimStart(s, 1), TrimEnd(s, Len(s)))

\* String.prototype.split(sep) for a non-empty separator: the pieces between
\* the non-overlapping occurrences of sep, found left to right
RECURSIVE SplitFrom(_, _, _)
SplitFrom(s, sep, acc) ==
    IF s = <<>> THEN <<acc>>
    ELSE IF StartsWith(s, sep)
         THEN <<acc>> \o SplitFrom(Slice(s, Len(sep)), sep, <<>>)
         ELSE SplitFrom(Tail(s), sep, Append(acc, Head(s)))

Split(s, sep) == SplitFrom(s, sep, <<>>)

----------------------------------------------------------------------------
(* utils: removeCommentMarkup *)

\* the 1-based position of the first "*/" at or after position j, 0 if none
RECURSIVE BlockEnd(_, _)
BlockEnd(s, j) ==
    IF j + 1 > Len(s) THEN 0
    ELSE IF s[j] = "*" /\ s[j + 1] = "/" THEN j
         ELSE BlockEnd(s, j + 1)

\* the position of the first line terminator at or after j, Len(s) + 1 if none:
\* where a greedy .* started at j stops
RECURSIVE LineEnd(_, _)
LineEnd(s, j) ==
    IF j > Len(s) THEN j
    ELSE IF s[j] = "\n" THEN j
         ELSE LineEnd(s, j + 1)

\* input.replace(/\/\*[\s\S]*?\*\/|\/\/.*/gm, ''), scanning from position i:
\* a block comment up to its first closing mark, or a line comment up to the
\* end of its line, is replaced by nothing; any other character is kept
RECURSIVE RemoveFrom(_, _)
RemoveFrom(s, i) ==
    IF i > Len(s) THEN <<>>
    ELSE IF i + 1 <= Len(s) /\ s[i] = "/" /\ s[i + 1] = "*" /\ BlockEnd(s, i + 2) # 0
         THEN RemoveFrom(s, BlockEnd(s, i + 2) + 2)
    ELSE IF i + 1 <= Len(s) /\ s[i] = "/" /\ s[i + 1] = "/"
         THEN RemoveFrom(s, LineEnd(s, i + 2))
    ELSE <<s[i]>> \o RemoveFrom(s, i + 1)

removeCommentMarkup(input) == RemoveFrom(input, 1)

----------------------------------------------------------------------------
(* The position index *)

\* lines.forEach((line, idx) => { lineIndex[cumulativeLength] = idx + 1;
\*                                cumulativeLength += line.length + 1 })
RECURSIVE IndexLines(_, _, _)
IndexLines(lines, idx, cumulativeLength) ==
    IF idx > Len(lines) THEN <<>>
    ELSE <<[start |-> cumulativeLength, line |-> idx]>>
         \o IndexLines(lines, idx + 1, cumulativeLength + Len(lines[idx]) + 1)

\* the object lineIndex: its keys are the line-start offsets
BuildLineIndex(text) ==
    LET rows == IndexLines(Split(text, <<"\n">>), 1, 0)
    IN  [k \in {rows[i].start : i \in 1..Len(rows)} |->
            (CHOOSE i \in 1..Len(rows) : rows[i].start = k)]

\* the greatest key of the object
LastKey(indexMap) == CHOOSE x \in DOMAIN indexMap : \A y \in DOMAIN indexMap : y <= x

\* the for...in loop breaking on charIndex <= currentIndex
RECURSIVE ScanKeysLoose(_, _, _, _)
ScanKeysLoose(indexMap, currentIndex, previousIndex, charIndex) ==
    IF currentIndex > LastKey(indexMap) THEN previousIndex
    ELSE IF currentIndex \notin DOMAIN indexMap
         THEN ScanKeysLoose(indexMap, currentIndex + 1, previousIndex, charIndex)
    ELSE IF charIndex <= currentIndex THEN previousIndex
    ELSE ScanKeysLoose(indexMap, currentIndex + 1, currentIndex, charIndex)

\* findLineNumber breaking on charIndex <= currentIndex
findLineNumberLoose(charIndex, indexMap) ==
    indexMap[ScanKeysLoose(indexMap, 0, 0, charIndex)]

\* for (const startIndexOfLine in indexMap): for...in visits integer keys in
\* ascending numeric order, so the loop is a walk up the offsets that are keys
RECURSIVE ScanKeys(_, _, _, _)
ScanKeys(indexMap, currentIndex, previousIndex, charIndex) ==
    IF currentIndex > LastKey(indexMap) THEN previousIndex
    ELSE IF currentIndex \notin DOMAIN indexMap
         THEN ScanKeys(indexMap, currentIndex + 1, previousIndex, charIndex)
    ELSE IF charIndex < currentIndex THEN previousIndex
    ELSE ScanKeys(indexMap, currentIndex + 1, currentIndex, charIndex)

findLineNumber(charIndex, indexMap) ==
    indexMap[ScanKeys(indexMap, 0, 0, charIndex)]

----------------------------------------------------------------------------
(* The pattern matcher: TRANSLATIONS_REGEX, a global (restartable) pattern *)

NoMatch ==
    [found |-> FALSE, index |-> 0, end |-> 0, msgid |-> <<>>,
     msgctxt |-> None, translatorComment |-> None, guidance |-> <<>>]

\* RegExp.prototype.exec of a global pattern: the first match that starts at
\* or after lastIndex, or null
RECURSIVE RegexExecFrom(_, _, _)
RegexExecFrom(ms, i, li) ==
    IF i > Len(ms) THEN NoMatch
    ELSE IF ms[i].index >= li THEN ms[i]
         ELSE RegexExecFrom(ms, i + 1, li)

RegexExec(ms, li) == RegexExecFrom(ms, 1, li)

\* lastIndex after exec: the end of the match, or 0 after a failed search
RegexLastIndex(m) == IF m.found THEN m.end ELSE 0

----------------------------------------------------------------------------
(* The inputs of the code extractor *)

TextChars == {"\n", "x"}

Texts == SeqsUpTo(TextChars, MaxLen)

FileNames == {"a.php"}

Slugs == {<<"a", "b">>, <<"b">>}

Contexts == {<<"a">>, <<"a", "b">>, <<"b", "a">>}

\* the guidance a translator wrote
Bodies == {<<" ", "t", " ">>, <<"t", "\n", "t">>}

\* a translator annotation as the pattern captures it: a block comment, a
\* line comment, or the bare guidance
Annotations ==
    {[raw |-> <<"/", "*">> \o b \o <<"*", "/">>, guidance |-> b] : b \in Bodies}
    \cup {[raw |-> <<"/", "/">> \o b, guidance |-> b] :
             b \in {c \in Bodies : \A i \in 1..Len(c) : c[i] # "\n"}}
    \cup {[raw |-> b, guidance |-> b] : b \in Bodies}

\* the optional captures of one match: a context, an annotation, or neither
Captures ==
    {[msgctxt |-> None, translatorComment |-> None, guidance |-> <<>>]}
    \cup {[msgctxt |-> Some(c), translatorComment |-> None, guidance |-> <<>>] :
             c \in Contexts}
    \cup {[msgctxt |-> None, translatorComment |-> Some(a.raw),
           guidance |-> a.guidance] : a \in Annotations}

\* the sequences of non-overlapping spans of a text of n characters, all
\* starting at or after lo, in text order; a call, f(), spans more than one
\* character
RECURSIVE SpanSeqs(_, _)
SpanSeqs(lo, n) ==
    {<<>>} \cup
    UNION {UNION {{<<[index |-> i, end |-> e]>> \o r : r \in SpanSeqs(e, n)} :
                  e \in (i + 2)..n} :
           i \in lo..(n - 1)}

MkMatch(span, c) ==
    [found |-> TRUE, index |-> span.index, end |-> span.end, msgid |-> <<"m">>,
     msgctxt |-> c.msgctxt, translatorComment |-> c.translatorComment,
     guidance |-> c.guidance]

\* the calls that capture neither a context nor an annotation
PlainCaptures == {c \in Captures : ~c.msgctxt.some /\ ~c.translatorComment.some}

\* what the pattern can find in a text, with captures drawn from caps
MatchSeqs(text, caps) ==
    UNION {{[i \in 1..Len(sp) |-> MkMatch(sp[i], cs[i])] :
               cs \in [1..Len(sp) -> caps]} :
           sp \in SpanSeqs(0, Len(text))}

----------------------------------------------------------------------------
(* extractTranslationsFromCode *)

\* while ((match = TRANSLATIONS_REGEX.exec(content)) !== null), left when a
\* match carries a context
WhileTestStopsAtContext(m) == m.found /\ ~m.msgctxt.some

\* while ((match = TRANSLATIONS_REGEX.exec(content)) !== null)
WhileTest(m) == m.found

\* if (msgctxt && msgctxt.length >= 2) { if (msgctxt[1] !== args.slug) ... }:
\* msgctxt is the capture, a string, and msgctxt[1] its second character
ContextWarning(msgctxt, sl) ==
    /\ msgctxt.some
    /\ Len(msgctxt.str) >= 2
    /\ <<msgctxt.str[2]>> # sl

\* translations.unshift(...)
PushFront(list, occ) == <<occ>> \o list

\* translations.push(...)
Push(list, occ) == Append(list, occ)

\* the object pushed for one match
Occurrence(m, fname, index) ==
    [msgid |-> m.msgid,
     msgctxt |-> m.msgctxt,
     comments |-> IF m.translatorComment.some
                  THEN Some(Trim(removeCommentMarkup(m.translatorComment.str)))
                  ELSE None,
     reference |-> [file |-> fname, line |-> findLineNumber(m.index, index)]]

CodeIdle ==
    /\ pc = "idle"
    /\ content = <<>>
    /\ filename = ""
    /\ slug = <<>>
    /\ matches = <<>>
    /\ lineIndex = <<>>
    /\ translations = <<>>
    /\ diagnostics = <<>>

\* the call, up to the while loop: the line index is built
StartCallOn(caps) ==
    /\ pc = "idle"
    /\ callsDone < MaxCalls
    /\ \E text \in Texts, fname \in FileNames, sl \in Slugs :
         \E ms \in MatchSeqs(text, caps) :
            /\ content' = text
            /\ filename' = fname
            /\ slug' = sl
            /\ matches' = ms
            /\ lineIndex' = BuildLineIndex(text)
    /\ translations' = <<>>
    /\ diagnostics' = <<>>
    /\ pc' = "loop"
    /\ UNCHANGED <<lastIndex, callsDone, dataVars, potVars>>

\* a call on a file of any content
StartCall == StartCallOn(Captures)

\* a call on a file whose calls capture no context and no annotation
StartPlainCall == StartCallOn(PlainCaptures)

\* one evaluation of the while test and, when it passes, of the loop body
LoopIter ==
    /\ pc = "loop"
    /\ LET m == RegexExec(matches, lastIndex)
           occ == Occurrence(m, filename, lineIndex)
       IN  /\ lastIndex' = RegexLastIndex(m)
           /\ IF WhileTest(m)
              THEN /\ diagnostics' =
                        IF ContextWarning(m.msgctxt, slug)
                        THEN Append(diagnostics,
                                    [n |-> Len(translations) + 1,
                                     file |-> filename,
                                     line |-> occ.reference.line,
                                     got |-> <<m.msgctxt.str[2]>>,
                                     slug |-> slug])
                        ELSE diagnostics
                   /\ translations' = Push(translations, occ)
                   /\ pc' = "loop"
              ELSE /\ pc' = "done"
                   /\ UNCHANGED <<translations, diagnostics>>
    /\ UNCHANGED <<content, filename, slug, matches, lineIndex, callsDone,
                   dataVars, potVars>>

\* return translations: the locals go, the pattern's lastIndex stays
ReturnCall ==
    /\ pc = "done"
    /\ pc' = "idle"
    /\ content' = <<>>
    /\ filename' = ""
    /\ slug' = <<>>
    /\ matches' = <<>>
    /\ lineIndex' = <<>>
    /\ translations' = <<>>
    /\ diagnostics' = <<>>
    /\ callsDone' = callsDone + 1
    /\ UNCHANGED <<lastIndex, dataVars, potVars>>

----------------------------------------------------------------------------
(* The structured-data extractor: bounds and inputs *)

MaxElems == 2

EmptyMap == [x \in {} |-> x]

NoContext == [some |-> FALSE, str |-> ""]

Terms == {"title", "tags"}

InnerKeys == {"x", "title"}

Strs == {"a", "b"}

SourceKinds == {"block.json", "theme.json"}

FilePaths == {"src/block.json"}

\* a value of the parsed structure
Undefined == [kind |-> "undefined", str |-> "", arr |-> <<>>, obj |-> <<>>]

JsNull == [kind |-> "null", str |-> "", arr |-> <<>>, obj |-> <<>>]

Str(v) == [kind |-> "string", str |-> v, arr |-> <<>>, obj |-> <<>>]

Arr(a) == [kind |-> "array", str |-> "", arr |-> a, obj |-> <<>>]

Obj(o) == [kind |-> "object", str |-> "", arr |-> <<>>, obj |-> o]

\* the sequences without repetition of at most n members of S
DistinctSeqs(S, n) ==
    {q \in SeqsUpTo(S, n) : \A i, j \in 1..Len(q) : i # j => q[i] # q[j]}

\* an inner value: a string, or something that is not a string
InnerValues ==
    {[isString |-> TRUE, str |-> v] : v \in Strs}
    \cup {[isString |-> FALSE, str |-> ""]}

InnerObjects ==
    UNION {{[i \in 1..Len(ks) |-> [key |-> ks[i], val |-> vs[i]]] :
               vs \in [1..Len(ks) -> InnerValues]} :
           ks \in DistinctSeqs(InnerKeys, MaxElems)}

Items ==
    {Undefined, JsNull, Str("")}
    \cup {Str(v) : v \in Strs}
    \cup {Arr(a) : a \in SeqsUpTo(Strs, MaxElems)}
    \cup {Obj(o) : o \in InnerObjects}

\* the parsed structures: absent, or an object whose keys are Terms
ParsedInputs ==
    {Undefined, JsNull}
    \cup UNION {{Obj([i \in 1..Len(ks) |-> [key |-> ks[i], val |-> vs[i]]]) :
                    vs \in [1..Len(ks) -> Items]} :
                ks \in DistinctSeqs(Terms, Cardinality(Terms))}

\* the field-name to semantic-label tables of getJsonComment, one per source
\* kind; a field name the table lacks passes through
JsonLabels ==
    [k \in SourceKinds |->
        IF k = "block.json"
        THEN [t \in {"title", "tags"} |->
                 IF t = "title" THEN "Block Title" ELSE "Block Tag"]
        ELSE [t \in {"title"} |-> "Theme Title"]]

getJsonComment(term, kind) ==
    IF term \in DOMAIN JsonLabels[kind] THEN JsonLabels[kind][term] ELSE term

----------------------------------------------------------------------------
(* yieldParsedData *)

gentranslation(label, string, filePath) ==
    [msgctxt |-> NoContext,
     msgid |-> string,
     msgid_plural |-> "",
     msgstr |-> <<>>,
     comments |-> [extracted |-> label, reference |-> filePath]]

\* storeTranslation(value, valueKey): the mapping after the assignment
\*   gettextTranslations[entry.msgctxt ?? ''] =
\*       { ...(gettextTranslations[entry.msgctxt ?? ''] || {}), [entry.msgid]: entry }
storeTranslation(gt, term, value, valueKey, kind, filePath) ==
    LET entry == gentranslation(getJsonComment(term, kind), valueKey, filePath)
        ck == IF entry.msgctxt.some THEN entry.msgctxt.str ELSE ""
        old == IF ck \in DOMAIN gt THEN gt[ck] ELSE EmptyMap
    IN  [c \in DOMAIN gt \cup {ck} |->
            IF c = ck
            THEN [id \in DOMAIN old \cup {entry.msgid} |->
                     IF id = entry.msgid THEN entry ELSE old[id]]
            ELSE gt[c]]

\* if (!parsed)
ParsedAbsent(p) == p.kind \in {"undefined", "null"}

\* item === undefined
IsFalsyOnlyUndefined(item) == item.kind = "undefined"

\* if (!item)
IsFalsy(item) ==
    \/ item.kind \in {"undefined", "null"}
    \/ item.kind = "string" /\ item.str = ""

\* the storeTranslation calls made for one top-level entry, as
\* [value, valueKey], valueKey defaulting to term; Object.entries of null or
\* undefined throws a TypeError
EntryCalls(term, item) ==
    IF IsFalsy(item) THEN [throws |-> FALSE, calls |-> <<>>]
    ELSE IF item.kind = "string"
         THEN [throws |-> FALSE,
               calls |-> <<[term |-> term, value |-> item.str, valueKey |-> term]>>]
    ELSE IF item.kind = "array"
         THEN [throws |-> FALSE,
               calls |-> [i \in 1..Len(item.arr) |->
                            [term |-> term, value |-> item.arr[i], valueKey |-> term]]]
    ELSE IF item.kind \in {"undefined", "null"}
         THEN [throws |-> TRUE, calls |-> <<>>]
    ELSE LET strs == SelectSeq(item.obj, LAMBDA e : e.val.isString)
         IN  [throws |-> FALSE,
              calls |-> [i \in 1..Len(strs) |->
                           [term |-> term, value |-> strs[i].val.str,
                            valueKey |-> strs[i].key]]]

\* the call, up to Object.entries(parsed).forEach
YieldCall ==
    /\ dpc = "idle"
    /\ \E p \in ParsedInputs, kind \in SourceKinds, path \in FilePaths :
         /\ parsed' = [input |-> p, filename |-> kind, filepath |-> path]
         /\ IF ParsedAbsent(p)
            THEN /\ dpc' = "returned"
                 /\ entries' = <<>>
            ELSE /\ dpc' = "entries"
                 /\ entries' = p.obj
    /\ pending' = <<>>
    /\ gettextTranslations' = EmptyMap
    /\ stored' = <<>>
    /\ UNCHANGED <<codeVars, potVars>>

\* the forEach callback reaches its branch on the next entry's value
VisitEntry ==
    /\ dpc = "entries"
    /\ pending = <<>>
    /\ entries # <<>>
    /\ LET e == Head(entries)
           out == EntryCalls(e.key, e.val)
       IN  /\ dpc' = IF out.throws THEN "threw" ELSE "entries"
           /\ pending' = out.calls
    /\ entries' = Tail(entries)
    /\ UNCHANGED <<parsed, gettextTranslations, stored, codeVars, potVars>>

\* one storeTranslation call
StoreStep ==
    /\ dpc = "entries"
    /\ pending # <<>>
    /\ LET c == Head(pending)
       IN  /\ gettextTranslations' =
                 storeTranslation(gettextTranslations, c.term, c.value, c.valueKey,
                                  parsed.filename, parsed.filepath)
           /\ stored' = Append(stored, c)
    /\ pending' = Tail(pending)
    /\ UNCHANGED <<dpc, parsed, entries, codeVars, potVars>>

\* return gettextTranslations
YieldReturn ==
    /\ dpc = "entries"
    /\ pending = <<>>
    /\ entries = <<>>
    /\ dpc' = "returned"
    /\ UNCHANGED <<parsed, entries, pending, gettextTranslations, stored,
                   codeVars, potVars>>

DataIdle ==
    /\ dpc = "idle"
    /\ parsed = [input |-> Undefined, filename |-> "", filepath |-> ""]
    /\ entries = <<>>
    /\ pending = <<>>
    /\ gettextTranslations = EmptyMap
    /\ stored = <<>>

\* the caller is done with the result
YieldReset ==
    /\ dpc \in {"returned", "threw"}
    /\ dpc' = "idle"
    /\ parsed' = [input |-> Undefined, filename |-> "", filepath |-> ""]
    /\ entries' = <<>>
    /\ pending' = <<>>
    /\ gettextTranslations' = EmptyMap
    /\ stored' = <<>>
    /\ UNCHANGED <<codeVars, potVars>>

----------------------------------------------------------------------------
(* The catalog extractor: bounds and inputs *)

MaxPieces == 4

\* the configured prefixes, in the order for...in visits them; [0] of a
\* rule's value is its semantic label
prefixes ==
    <<[prefix |-> <<"_", "n">>, value |-> <<"plural">>],
      [prefix |-> <<"_", "n", "x">>, value |-> <<"plural+context">>],
      [prefix |-> <<"_", "x">>, value |-> <<"context">>]>>

PotPieces ==
    {<<"m", "s", "g", "i", "d", " ", "_", "n">>,
     <<"m", "s", "g", "i", "d", " ", "y">>,
     <<"x">>,
     <<"\n">>,
     <<"#", " ", "c">>,
     <<"m", "s", "g", "s", "t", "r", " ", "s">>,
     <<"m", "s", "g", "c", "t", "x", "t", " ", "c">>}

RECURSIVE Flatten(_)
Flatten(ps) == IF ps = <<>> THEN <<>> ELSE Head(ps) \o Flatten(Tail(ps))

PotContents == {Flatten(ps) : ps \in SeqsUpTo(PotPieces, MaxPieces)}

----------------------------------------------------------------------------
(* extractTranslations *)

\* lines.forEach(line => ...): the four locals after the lines from i on
RECURSIVE ParseLines(_, _, _)
ParseLines(lines, i, acc) ==
    IF i > Len(lines) THEN acc
    ELSE LET line == lines[i]
         IN  ParseLines(lines, i + 1,
                 IF StartsWith(line, <<"m", "s", "g", "i", "d">>)
                 THEN [acc EXCEPT !.msgid = Trim(Slice(line, 6))]
                 ELSE IF StartsWith(line, <<"m", "s", "g", "s", "t", "r">>)
                 THEN [acc EXCEPT !.msgstr = Trim(Slice(line, 7))]
                 ELSE IF StartsWith(line, <<"m", "s", "g", "c", "t", "x", "t">>)
                 THEN [acc EXCEPT !.msgctxt = Trim(Slice(line, 8))]
                 ELSE IF StartsWith(line, <<"#">>)
                 THEN [acc EXCEPT !.comments = @ \o Trim(Slice(line, 2)) \o <<"\n">>]
                 ELSE acc)

ParseEntry(entry) ==
    ParseLines(Split(entry, <<"\n">>), 1,
               [msgid |-> <<>>, msgstr |-> <<>>, msgctxt |-> <<>>, comments |-> <<>>])

\* for (const prefix in prefixes) { if (msgid.startsWith(prefix)) push }
RECURSIVE PrefixLoop(_, _)
PrefixLoop(data, k) ==
    IF k > Len(prefixes) THEN <<>>
    ELSE (IF StartsWith(data.msgid, prefixes[k].prefix)
          THEN <<[translationKey |-> prefixes[k].value[1],
                  msgid |-> data.msgid, msgstr |-> data.msgstr,
                  msgctxt |-> data.msgctxt, comments |-> data.comments]>>
          ELSE <<>>)
         \o PrefixLoop(data, k + 1)

\* the prefix loop with a break after the first push
RECURSIVE PrefixLoopBreak(_, _)
PrefixLoopBreak(data, k) ==
    IF k > Len(prefixes) THEN <<>>
    ELSE IF StartsWith(data.msgid, prefixes[k].prefix)
         THEN <<[translationKey |-> prefixes[k].value[1],
                 msgid |-> data.msgid, msgstr |-> data.msgstr,
                 msgctxt |-> data.msgctxt, comments |-> data.comments]>>
         ELSE PrefixLoopBreak(data, k + 1)

EntryRecordsBreak(entry) == PrefixLoopBreak(ParseEntry(entry), 1)

\* the records one entry block pushes
EntryRecords(entry) == PrefixLoop(ParseEntry(entry), 1)

RECURSIVE EntriesLoop(_, _)
EntriesLoop(blocks, i) ==
    IF i > Len(blocks) THEN <<>>
    ELSE EntryRecords(blocks[i]) \o EntriesLoop(blocks, i + 1)

extractTranslations(text) == EntriesLoop(Split(text, <<"\n", "\n">>), 1)

ExtractCall ==
    /\ cpc = "idle"
    /\ \E text \in PotContents :
         /\ potContent' = text
         /\ potResult' = extractTranslations(text)
    /\ cpc' = "returned"
    /\ UNCHANGED <<codeVars, dataVars>>

PotIdle ==
    /\ cpc = "idle"
    /\ potContent = <<>>
    /\ potResult = <<>>

\* the caller is done with the result
ExtractReset ==
    /\ cpc = "returned"
    /\ cpc' = "idle"
    /\ potContent' = <<>>
    /\ potResult' = <<>>
    /\ UNCHANGED <<codeVars, dataVars>>

----------------------------------------------------------------------------
(* Specifications *)

Init ==
    /\ CodeIdle
    /\ lastIndex = 0
    /\ callsDone = 0
    /\ DataIdle
    /\ PotIdle

NextCode == StartCall \/ LoopIter \/ ReturnCall

NextData == YieldCall \/ VisitEntry \/ StoreStep \/ YieldReturn \/ YieldReset

NextPot == ExtractCall \/ ExtractReset

\* the code extractor, file after file
SpecCode == Init /\ [][NextCode]_vars

NextPlainCode == StartPlainCall \/ LoopIter \/ ReturnCall

\* the code extractor on files of plain calls.  A call of
\* extractTranslationsFromCode is synchronous: once begun it runs on until it
\* returns
LiveSpecCode ==
    Init /\ [][NextPlainCode]_vars /\ WF_vars(LoopIter) /\ WF_vars(ReturnCall)

\* the structured-data extractor, call after call
SpecData == Init /\ [][NextData]_vars

\* the catalog extractor, call after call
SpecPot == Init /\ [][NextPot]_vars

----------------------------------------------------------------------------
(* Properties of the structured-data extractor (SpecData) *)

\* the strings one top-level value holds
StringValues(item) ==
    IF IsFalsy(item) THEN {}
    ELSE IF item.kind = "string" THEN {item.str}
    ELSE IF item.kind = "array" THEN {item.arr[i] : i \in 1..Len(item.arr)}
    ELSE {item.obj[i].val.str : i \in {j \in 1..Len(item.obj) : item.obj[j].val.isString}}

\* how many strings one top-level value holds
NumStrings(item) ==
    IF item.kind = "string" THEN 1
    ELSE IF item.kind = "array" THEN Len(item.arr)
    ELSE Cardinality({j \in 1..Len(item.obj) : item.obj[j].val.isString})

\* the (semantic label, messageId) pairs of the entries of the mapping
ResultPairs ==
    UNION {{<<gettextTranslations[c][id].comments.extracted,
              gettextTranslations[c][id].msgid>> :
               id \in DOMAIN gettextTranslations[c]} :
           c \in DOMAIN gettextTranslations}

\* C1: when yieldParsedData returns, the (label, messageId) pairs of its
\* entries are exactly the pairs (label of the top-level key, string value),
\* one for each string the key's value holds: the string itself, each element
\* of a sequence, each string-valued inner value of a nested mapping.
C1_MessageIdIsValue ==
    (dpc = "returned" /\ ~ParsedAbsent(parsed.input)) =>
        ResultPairs =
            UNION {{<<getJsonComment(parsed.input.obj[i].key, parsed.filename), v>> :
                       v \in StringValues(parsed.input.obj[i].val)} :
                   i \in 1..Len(parsed.input.obj)}

\* the first storeTranslation call whose identity key is (ck, id)
FirstStored(id) ==
    stored[CHOOSE i \in 1..Len(stored) :
               /\ stored[i].valueKey = id
               /\ \A j \in 1..(i - 1) : stored[j].valueKey # id]

\* C5: every identity key (messageContext ?? "", messageId) stored so far
\* maps to one entry, and that entry is the one its first occurrence seeded:
\* a later occurrence with the same key does not replace its comment or its
\* reference.
C5_FirstSeenKept ==
    \A c \in DOMAIN gettextTranslations :
        \A id \in DOMAIN gettextTranslations[c] :
            /\ \E i \in 1..Len(stored) : stored[i].valueKey = id
            /\ gettextTranslations[c][id].comments =
                   [extracted |-> getJsonComment(FirstStored(id).term, parsed.filename),
                    reference |-> parsed.filepath]

\* C6: every occurrence stored so far sits under the outer key that is the
\* semantic label of its field and under the inner key that is its string
\* value (so fields with different labels use different outer keys).
C6_OuterKeyIsLabel ==
    \A i \in 1..Len(stored) :
        LET label == getJsonComment(stored[i].term, parsed.filename)
        IN  /\ label \in DOMAIN gettextTranslations
            /\ stored[i].value \in DOMAIN gettextTranslations[label]

\* C7: yieldParsedData never throws; for an absent input it returns the empty
\* mapping; and when it returns, a top-level key whose value is absent or
\* falsy has produced no occurrence while every other key has produced one
\* occurrence per string its value holds.
C7_AbsentAndFalsySkipped ==
    /\ dpc # "threw"
    /\ (dpc = "returned" /\ ParsedAbsent(parsed.input)) =>
           (gettextTranslations = EmptyMap /\ stored = <<>>)
    /\ (dpc = "returned" /\ ~ParsedAbsent(parsed.input)) =>
           \A i \in 1..Len(parsed.input.obj) :
               LET e == parsed.input.obj[i]
                   made == Cardinality({j \in 1..Len(stored) : stored[j].term = e.key})
               IN  IF e.val.kind \in {"undefined", "null"}
                      \/ (e.val.kind = "string" /\ e.val.str = "")
                   THEN made = 0
                   ELSE made = NumStrings(e.val)

\* a falsy first value has been skipped and the value after it processed
C7_Witness ==
    /\ dpc = "returned"
    /\ ~ParsedAbsent(parsed.input)
    /\ Len(parsed.input.obj) = 2
    /\ parsed.input.obj[1].val = JsNull
    /\ parsed.input.obj[2].val.kind = "array"
    /\ Len(stored) = 2
    /\ gettextTranslations # EmptyMap

----------------------------------------------------------------------------
(* Properties of the code extractor (SpecCode, LiveSpecCode) *)

\* C2: for every match with a context capture, a warning is emitted exactly
\* when the whole captured context differs from args.slug.
C2_WarningIffMismatch ==
    \A i \in 1..Len(translations) :
        translations[i].msgctxt.some =>
            ((\E k \in 1..Len(diagnostics) : diagnostics[k].n = i)
                <=> translations[i].msgctxt.str # slug)

\* C3: the comment of an occurrence is the trimmed guidance of the annotation
\* its match captured, and is undefined when the match captured none.
C3_CommentIsGuidance ==
    \A i \in 1..Len(translations) :
        translations[i].comments =
            IF matches[i].translatorComment.some
            THEN Some(Trim(matches[i].guidance))
            ELSE None

\* the newline characters of text[0:O]
NewlinesBefore(text, O) == Cardinality({k \in 1..O : text[k] = "\n"})

\* C8: for every offset O of the text, the line number resolved from the
\* index built over the text is 1 + the number of newlines in T[0:O], and the
\* line of every occurrence is that number at its match's start.
C8_LineIsNewlineCount ==
    pc # "idle" =>
        /\ \A O \in 0..(Len(content) - 1) :
               findLineNumber(O, lineIndex) = 1 + NewlinesBefore(content, O)
        /\ \A i \in 1..Len(translations) :
               translations[i].reference =
                   [file |-> filename,
                    line |-> 1 + NewlinesBefore(content, matches[i].index)]

\* matches at the start of an empty first line and at the start of a final
\* line that has no newline after it
C8_Witness ==
    /\ pc = "done"
    /\ content = <<"\n", "\n", "x", "x">>
    /\ Len(translations) = 2
    /\ matches[1].index = 0
    /\ matches[2].index = 2
    /\ translations[1].reference.line = 1
    /\ translations[2].reference.line = 3

\* what a call returns when it is the only call ever made
AloneResult ==
    [i \in 1..Len(matches) |-> Occurrence(matches[i], filename, BuildLineIndex(content))]

\* C9: whenever a call begins the shared pattern's scan position is 0, and
\* the occurrences a call returns are those it returns when it is the only
\* call ever made, whatever files were processed before.
C9_NoCarryOver ==
    /\ (pc = "idle" \/ (pc = "loop" /\ translations = <<>>)) => lastIndex = 0
    /\ pc = "done" => translations = AloneResult

\* a second call has returned the occurrences of its file
C9_Witness ==
    /\ pc = "done"
    /\ callsDone >= 1
    /\ Len(translations) = 2
    /\ translations = AloneResult

\* C10: the match loop terminates; each iteration's match starts at or after
\* the previous scan position and after the previous match, and moves the scan
\* position forward; when the loop ends every match has been taken once; and
\* the occurrences are in the order of their matches, by non-decreasing line.
C10_LoopTerminatesInOrder ==
    /\ (pc = "loop") ~> (pc = "done")
    /\ [][(pc = "loop" /\ pc' = "loop") =>
            LET m == RegexExec(matches, lastIndex)
            IN  /\ m.index >= lastIndex
                /\ lastIndex' > lastIndex
                /\ Len(translations') = Len(translations) + 1
                /\ \A i \in 1..Len(translations) : matches[i].index < m.index]_vars
    /\ [](pc = "done" => Len(translations) = Len(matches))
    /\ [](\A i \in 1..Len(translations) :
             /\ translations[i] = Occurrence(matches[i], filename, lineIndex)
             /\ \A j \in 1..(i - 1) :
                    translations[j].reference.line <= translations[i].reference.line)

\* a loop has ended after two matches on different lines
C10_Witness ==
    /\ pc = "done"
    /\ Len(translations) = 2
    /\ translations[1].reference.line < translations[2].reference.line

----------------------------------------------------------------------------
(* Properties of the catalog extractor (SpecPot) *)

\* the configured prefixes that are a prefix of a block's recovered msgid
MatchingPrefixes(block) ==
    {k \in 1..Len(prefixes) : StartsWith(ParseEntry(block).msgid, prefixes[k].prefix)}

RECURSIVE CountPairs(_, _)
CountPairs(blocks, i) ==
    IF i > Len(blocks) THEN 0
    ELSE Cardinality(MatchingPrefixes(blocks[i])) + CountPairs(blocks, i + 1)

\* C4: the result holds one record per (block, matching prefix) pair and no
\* other: its length is the number of those pairs, every pair has its record
\* carrying the rule's label, and every record comes from such a pair.
C4_OneRecordPerMatchingPrefix ==
    cpc = "returned" =>
        LET blocks == Split(potContent, <<"\n", "\n">>)
        IN  /\ Len(potResult) = CountPairs(blocks, 1)
            /\ \A b \in 1..Len(blocks) :
                   \A k \in MatchingPrefixes(blocks[b]) :
                       \E r \in 1..Len(potResult) :
                           /\ potResult[r].translationKey = prefixes[k].value[1]
                           /\ potResult[r].msgid = ParseEntry(blocks[b]).msgid
            /\ \A r \in 1..Len(potResult) :
                   \E b \in 1..Len(blocks) :
                       \E k \in MatchingPrefixes(blocks[b]) :
                           /\ potResult[r].translationKey = prefixes[k].value[1]
                           /\ potResult[r].msgid = ParseEntry(blocks[b]).msgid

\* two blocks, one whose msgid matches a prefix and one whose msgid matches none
C4_Witness ==
    /\ cpc = "returned"
    /\ LET blocks == Split(potContent, <<"\n", "\n">>)
       IN  /\ Len(blocks) = 2
           /\ MatchingPrefixes(blocks[1]) # {}
           /\ ParseEntry(blocks[2]).msgid # <<>>
           /\ MatchingPrefixes(blocks[2]) = {}
    /\ Len(potResult) = 1

====
